---- MODULE Spec2Model ----
(***************************************************************************)
(* Model of the kaspa-wallet core: the UtxoSet class (src/unnamed/part_000)*)
(* and the Wallet class (src/src/wallet/Wallet.ts).  JavaScript semantics  *)
(* are kept where the code depends on them: a property that is never       *)
(* assigned reads undefined, arithmetic on undefined gives NaN, calling a  *)
(* missing method throws a TypeError at the point of the call.             *)
(***************************************************************************)
EXTENDS Integers, Sequences, FiniteSets, TLC

VARIABLES
  utxoSet,        \* Wallet.utxoSet: the UtxoSet object (utxos, inUse, availableBalance, balance)
  pending,        \* Wallet.pending.transactions: tx id -> {utxoIds, amount}
  balance,        \* Wallet.balance
  addressManager, \* counters of AddressManager.receiveAddress / changeAddress
  receiveAddress, \* Wallet.receiveAddress
  sending,        \* the sendTx call suspended at `await api.postTx`, if any
  transactionsStorage, \* Wallet.transactionsStorage: the addresses that have transactions
  discovery,      \* the addressDiscovery call in progress: its position, arguments and locals
  last            \* the last call made, its arguments, its outcome and the state before it

vars == <<utxoSet, pending, balance, addressManager, receiveAddress, sending,
          transactionsStorage, discovery, last>>

(***************************************************************************)
(* Bounds of the model.                                                    *)
(***************************************************************************)
MaxBatch == 1      \* longest UTXO list one API answer holds
MaxInUse == 2      \* longest inUse array the UtxoSet harness builds
MaxTarget == 3     \* largest txAmount handed to selectUtxos directly
MaxAmount == 1     \* largest amount a caller sends
MaxFee == 1        \* largest fee a caller gives
MaxCursor == 3     \* the address counters stop advancing here
MaxThreshold == 3  \* largest threshold handed to addressDiscovery
MaxIndex == 3      \* highest derivation index that has transaction history

(***************************************************************************)
(* JavaScript values of the fields that are not always numbers.            *)
(***************************************************************************)
Num(n) == [t |-> "number", v |-> n]
NaN == [t |-> "NaN", v |-> 0]
Undefined == [t |-> "undefined", v |-> 0]

\* a - b on JavaScript values: NaN unless both operands are numbers
JsMinus(a, b) == IF a.t = "number" /\ b.t = "number" THEN Num(a.v - b.v) ELSE NaN

\* a + b on JavaScript number values: NaN when an operand is NaN
JsPlus(a, b) == IF a.t = "number" /\ b.t = "number" THEN Num(a.v + b.v) ELSE NaN

\* a >= b and a < b: every comparison with NaN is false
JsGe(a, b) == a.t = "number" /\ b.t = "number" /\ a.v >= b.v
JsLt(a, b) == a.t = "number" /\ b.t = "number" /\ a.v < b.v

\* `n !== s` with n a number (the result of indexOf) and s a string: operands of
\* different types are never strictly equal, so the test is always true
NumberStrictNeqString(n, s) == TRUE

(***************************************************************************)
(* What the API may answer: Api.Utxo objects.  Transaction ids have one    *)
(* fixed length, as hashes do.                                             *)
(***************************************************************************)
ApiUtxos ==
  { [transactionId |-> "a", index |-> 0, value |-> 1],
    [transactionId |-> "a", index |-> 1, value |-> 2],
    [transactionId |-> "b", index |-> 0, value |-> 1] }

\* an answer that gives a known outpoint another value
StaleUtxo == [transactionId |-> "a", index |-> 0, value |-> 2]

RECURSIVE SeqsUpTo(_, _)
SeqsUpTo(S, n) ==
  IF n = 0 THEN {<<>>}
  ELSE LET shorter == SeqsUpTo(S, n - 1)
       IN shorter \cup {Append(s, x) : s \in {t \in shorter : Len(t) = n - 1}, x \in S}

\* the outpoints the wallet's own address holds
OwnUtxos == {u \in ApiUtxos : u.transactionId = "a"}

Batches == SeqsUpTo(OwnUtxos, MaxBatch)
BatchesWithStale == SeqsUpTo(ApiUtxos \cup {StaleUtxo}, MaxBatch)

Range(s) == {s[i] : i \in 1..Len(s)}

(***************************************************************************)
(* UtxoSet                                                                 *)
(***************************************************************************)
\* utxo.transactionId + utxo.index.toString()
UtxoId(utxo) == utxo.transactionId \o ToString(utxo.index)

AllUtxoIds == {UtxoId(u) : u \in ApiUtxos}

\* Array.prototype.indexOf, 0-based, -1 when absent
IndexOf(arr, x) ==
  IF \E i \in 1..Len(arr) : arr[i] = x
  THEN (CHOOSE i \in 1..Len(arr) : arr[i] = x /\ \A j \in 1..(i - 1) : arr[j] # x) - 1
  ELSE -1

\* this.utxos[utxoId] is set; utxos is the object's entries in insertion order
HasKey(utxos, utxoId) == \E i \in 1..Len(utxos) : utxos[i].id = utxoId

\* Object.keys(this.utxos)
Keys(utxos) == [i \in 1..Len(utxos) |-> utxos[i].id]

\* the fields of a new UtxoSet; `balance` is not a declared field and reads undefined
NewUtxoSet == [utxos |-> <<>>, inUse |-> <<>>, availableBalance |-> 0, balance |-> Undefined]

RECURSIVE SumSatoshis(_)
SumSatoshis(utxos) ==
  IF utxos = <<>> THEN 0 ELSE Head(utxos).satoshis + SumSatoshis(Tail(utxos))

NotInUse(us) == SelectSeq(us.utxos, LAMBDA u : IndexOf(us.inUse, u.id) = -1)

\* updateUtxoBalance writes the sum to this.balance
updateUtxoBalance(us) == [us EXCEPT !.balance = Num(SumSatoshis(NotInUse(us)))]

RECURSIVE addLoopNoDedupe(_, _, _, _, _)
addLoopNoDedupe(us, utxos, address, i, utxoIds) ==
  IF i > Len(utxos) THEN [us |-> us, utxoIds |-> utxoIds]
  ELSE LET utxo == utxos[i]
           utxoId == UtxoId(utxo)
           kept == SelectSeq(us.utxos, LAMBDA u : u.id # utxoId)
       IN addLoopNoDedupe([us EXCEPT !.utxos = Append(kept, [id |-> utxoId,
                                                             satoshis |-> utxo.value,
                                                             address |-> address])],
                          utxos, address, i + 1, Append(utxoIds, utxoId))

\* add with the `!this.utxos[utxoId]` test dropped: a known outpoint is written again
addNoDedupe(us, utxos, address) ==
  LET r == addLoopNoDedupe(us, utxos, address, 1, <<>>)
  IN [us |-> [r.us EXCEPT !.balance = Num(SumSatoshis(NotInUse(r.us)))], ret |-> r.utxoIds]

RECURSIVE addLoop(_, _, _, _, _)
addLoop(us, utxos, address, i, utxoIds) ==
  IF i > Len(utxos) THEN [us |-> us, utxoIds |-> utxoIds]
  ELSE LET utxo == utxos[i]
           utxoId == UtxoId(utxo)
       IN IF ~HasKey(us.utxos, utxoId)
             /\ NumberStrictNeqString(IndexOf(us.inUse, utxoId), utxoId)
          THEN addLoop([us EXCEPT !.utxos = Append(@, [id |-> utxoId,
                                                         satoshis |-> utxo.value,
                                                         address |-> address])],
                       utxos, address, i + 1, Append(utxoIds, utxoId))
          ELSE addLoop(us, utxos, address, i + 1, utxoIds)

\* add(utxos, address): the set after the call and the ids returned
add(us, utxos, address) ==
  LET r == addLoop(us, utxos, address, 1, <<>>)
  IN [us |-> updateUtxoBalance(r.us), ret |-> r.utxoIds]

\* enable with the filter test inverted (`!== -1`)
enableInverted(us, utxoIdsToEnable) ==
  [us EXCEPT !.inUse = SelectSeq(@, LAMBDA utxoId : IndexOf(utxoIdsToEnable, utxoId) # -1)]

enable(us, utxoIdsToEnable) ==
  [us EXCEPT !.inUse = SelectSeq(@, LAMBDA utxoId : IndexOf(utxoIdsToEnable, utxoId) = -1)]

\* clear without line 53: the inUse array is kept
clearKeepingInUse(us) == [us EXCEPT !.utxos = <<>>, !.availableBalance = 0]

clear(us) == [us EXCEPT !.utxos = <<>>, !.inUse = <<>>, !.availableBalance = 0]

RECURSIVE selectLoop(_, _, _, _, _)
selectLoop(us, txAmount, i, utxoIds, totalVal) ==
  IF i > Len(us.utxos) THEN [utxoIds |-> utxoIds, totalVal |-> totalVal]
  ELSE LET take == IndexOf(us.inUse, us.utxos[i].id) = -1
           ids == IF take THEN Append(utxoIds, us.utxos[i].id) ELSE utxoIds
           tot == IF take THEN totalVal + us.utxos[i].satoshis ELSE totalVal
       IN IF JsGe(Num(tot), txAmount) THEN [utxoIds |-> ids, totalVal |-> tot]
          ELSE selectLoop(us, txAmount, i + 1, ids, tot)

\* selectUtxos without the `inUse.indexOf(utxoId) === -1` test
RECURSIVE selectLoopIgnoringInUse(_, _, _, _, _)
selectLoopIgnoringInUse(us, txAmount, i, utxoIds, totalVal) ==
  IF i > Len(us.utxos) THEN [utxoIds |-> utxoIds, totalVal |-> totalVal]
  ELSE LET ids == Append(utxoIds, us.utxos[i].id)
           tot == totalVal + us.utxos[i].satoshis
       IN IF JsGe(Num(tot), txAmount) THEN [utxoIds |-> ids, totalVal |-> tot]
          ELSE selectLoopIgnoringInUse(us, txAmount, i + 1, ids, tot)

selectUtxosIgnoringInUse(us, txAmount) ==
  LET r == selectLoopIgnoringInUse(us, txAmount, 1, <<>>, 0)
  IN [threw |-> JsLt(Num(r.totalVal), txAmount), utxoIds |-> r.utxoIds,
      need |-> txAmount, totalVal |-> r.totalVal]

\* selectUtxos without the `totalVal < txAmount` throw of lines 74-75
selectUtxosNoThrow(us, txAmount) ==
  LET r == selectLoop(us, txAmount, 1, <<>>, 0)
  IN [threw |-> FALSE, utxoIds |-> r.utxoIds, need |-> txAmount, totalVal |-> r.totalVal]

\* selectUtxos breaking on `totalVal > txAmount` instead of `>=`
selectUtxosStrictBreak(us, txAmount) ==
  LET r == selectLoop(us, JsPlus(txAmount, Num(1)), 1, <<>>, 0)
  IN [threw |-> JsLt(Num(r.totalVal), txAmount), utxoIds |-> r.utxoIds,
      need |-> txAmount, totalVal |-> r.totalVal]

\* selectUtxos(txAmount): threw = the Error of line 75, carrying txAmount and totalVal
selectUtxos(us, txAmount) ==
  LET r == selectLoop(us, txAmount, 1, <<>>, 0)
  IN [threw |-> JsLt(Num(r.totalVal), txAmount), utxoIds |-> r.utxoIds,
      need |-> txAmount, totalVal |-> r.totalVal]

\* this.utxoSet.inUse.push(...utxoIds), as composeTx does
inUsePush(us, utxoIds) == [us EXCEPT !.inUse = @ \o utxoIds]

(***************************************************************************)
(* Wallet                                                                  *)
(***************************************************************************)
\* the fields of the Wallet object the handlers read and write
W == [utxoSet |-> utxoSet, pending |-> pending, balance |-> balance,
      addressManager |-> addressManager, receiveAddress |-> receiveAddress]

SetW(w) ==
  /\ utxoSet' = w.utxoSet
  /\ pending' = w.pending
  /\ balance' = w.balance
  /\ addressManager' = w.addressManager
  /\ receiveAddress' = w.receiveAddress

NoError == [name |-> "none"]
AmountTooLarge == [name |-> "Error", message |-> "Amount too large"]
ComposeError(need, utxoBalance) ==
  [name |-> "Error", message |-> "Transaction compose error", need |-> need,
   utxoBalance |-> utxoBalance]
SignError == [name |-> "SignError"]
FetchError == [name |-> "FetchError"]
TypeError(message) == [name |-> "TypeError", message |-> message]

Throw(w, error) == [w |-> w, threw |-> TRUE, error |-> error]
Return(w, ret) == [w |-> w, threw |-> FALSE, error |-> NoError, ret |-> ret]

\* composeTx without the test of line 192: every amount passes
isSafeIntegerAlways(amount) == TRUE

\* Number.isSafeInteger(amount): every number the model passes is a small integer
isSafeInteger(amount) == amount.t = "number"

\* this.utxoSet.totalBalance: UtxoSet declares and assigns no such member
totalBalance(us) == Undefined

RECURSIVE SumAmounts(_, _)
SumAmounts(transactions, ids) ==
  IF ids = {} THEN Num(0)
  ELSE LET id == CHOOSE x \in ids : TRUE
       IN JsPlus(transactions[id].amount, SumAmounts(transactions, ids \ {id}))

\* pending.amount
pendingAmount(transactions) == SumAmounts(transactions, DOMAIN transactions)

\* pending.add(id, tx): an assignment to transactions[id]
pendingAdd(transactions, id, tx) ==
  [x \in DOMAIN transactions \cup {id} |-> IF x = id THEN tx ELSE transactions[x]]

\* delete this.pending.transactions[id]
pendingDelete(transactions, id) ==
  [x \in DOMAIN transactions \ {id} |-> transactions[x]]

NoTransactions == [x \in {} |-> x]

updateBalance(w) ==
  [w EXCEPT !.balance = JsMinus(totalBalance(w.utxoSet), pendingAmount(w.pending))]

\* updateUtxos(addresses) once the API has answered: add per address, then updateBalance
updateUtxos(w, utxos, address) ==
  updateBalance([w EXCEPT !.utxoSet = add(@, utxos, address).us])

\* AddressManager: next() returns the address at the counter and advances it by one
Address(type, index) == [type |-> type, index |-> index]
NoOverride == [type |-> "none", index |-> 0]
OverrideAddress == [type |-> "override", index |-> 0]

\* an address no counter of this wallet's AddressManager has produced
ForeignAddress == Address("foreign", 0)

\* AddressManager.all: the addresses derived so far, each with its private key
all(am) == {Address("receive", i) : i \in 0..(am.receive - 1)}
             \cup {Address("change", i) : i \in 0..(am.change - 1)}

\* this.addressManager.all[address]: a missing property reads undefined
PrivateKey(am, address) ==
  IF address \in all(am) THEN [t |-> "PrivateKey", address |-> address] ELSE Undefined

\* lines 194-197: one lookup per selected UTXO, in selection order
privKeys(w, utxoIds) ==
  [k \in 1..Len(utxoIds) |->
     PrivateKey(w.addressManager,
                (CHOOSE u \in Range(w.utxoSet.utxos) : u.id = utxoIds[k]).address)]

\* tx.id: a hash of the transaction's inputs, outputs and fee
TxId(utxoIds, amount, fee, changeAddr) == <<utxoIds, amount, fee, changeAddr>>

\* line 198 calling changeAddress.next() also when an override is given
changeAddressTakenAlways(w, override) == [w EXCEPT !.addressManager.change = @ + 1]

\* line 198: `changeAddrOverride || this.addressManager.changeAddress.next()` evaluates
\* next(), which advances the change counter, only when no override is given
changeAddressTaken(w, override) ==
  IF override THEN w ELSE [w EXCEPT !.addressManager.change = @ + 1]

\* composeTx without line 210: the receive address is not rotated
composeTxNoRotate(w, amount, fee, changeAddrOverride, signOk) ==
  IF ~isSafeInteger(amount) THEN Throw(w, AmountTooLarge)
  ELSE
    LET sel == selectUtxos(w.utxoSet, JsPlus(amount, fee))
    IN IF sel.threw THEN Throw(w, ComposeError(sel.need, sel.totalVal))
       ELSE
         LET override == changeAddrOverride # NoOverride
             changeAddr == IF override THEN changeAddrOverride
                           ELSE Address("change", w.addressManager.change)
             w1 == changeAddressTaken(w, override)
         IN IF ~signOk THEN Throw(w1, SignError)
            ELSE
              LET id == TxId(sel.utxoIds, amount, fee, changeAddr)
                  tx == [utxoIds |-> sel.utxoIds, amount |-> JsPlus(amount, fee)]
                  w2 == [w1 EXCEPT !.utxoSet = inUsePush(@, sel.utxoIds)]
                  w3 == [w2 EXCEPT !.pending = pendingAdd(@, id, tx)]
                  w4 == [w3 EXCEPT !.utxoSet = updateUtxoBalance(@)]
              IN Return(updateBalance(w4),
                        [id |-> id, utxoIds |-> sel.utxoIds, amount |-> JsPlus(amount, fee),
                         privKeys |-> privKeys(w, sel.utxoIds)])

\* composeTx({toAddr, amount, fee, changeAddrOverride}); signOk: whether bitcore's
\* from/to/fee/change/sign chain returns instead of throwing.  The result carries the
\* privKeys array handed to sign()
composeTx(w, amount, fee, changeAddrOverride, signOk) ==
  IF ~isSafeInteger(amount) THEN Throw(w, AmountTooLarge)
  ELSE
    LET sel == selectUtxos(w.utxoSet, JsPlus(amount, fee))
    IN IF sel.threw THEN Throw(w, ComposeError(sel.need, sel.totalVal))
       ELSE
         LET override == changeAddrOverride # NoOverride
             changeAddr == IF override THEN changeAddrOverride
                           ELSE Address("change", w.addressManager.change)
             w1 == changeAddressTaken(w, override)
         IN IF ~signOk THEN Throw(w1, SignError)
            ELSE
              LET id == TxId(sel.utxoIds, amount, fee, changeAddr)
                  tx == [utxoIds |-> sel.utxoIds, amount |-> JsPlus(amount, fee)]
                  w2 == [w1 EXCEPT !.utxoSet = inUsePush(@, sel.utxoIds)]
                  w3 == [w2 EXCEPT !.pending = pendingAdd(@, id, tx)]
                  w4 == [w3 EXCEPT !.utxoSet = updateUtxoBalance(@)]
                  w5 == updateBalance(w4)
                  w6 == [w5 EXCEPT !.receiveAddress = Address("receive", w5.addressManager.receive),
                                   !.addressManager.receive = @ + 1]
              IN Return(w6, [id |-> id, utxoIds |-> sel.utxoIds, amount |-> JsPlus(amount, fee),
                             privKeys |-> privKeys(w, sel.utxoIds)])

\* deleteTx(id): destructuring an untracked entry throws; for a tracked one the entry is
\* deleted and the call of this.utxoSet.release, a method UtxoSet does not have, throws
deleteTx(w, id) ==
  IF id \notin DOMAIN w.pending
  THEN Throw(w, TypeError("Cannot destructure property 'utxoIds' of undefined"))
  ELSE Throw([w EXCEPT !.pending = pendingDelete(@, id)],
             TypeError("this.utxoSet.release is not a function"))

(***************************************************************************)
(* addressDiscovery                                                        *)
(***************************************************************************)
Idle == [pc |-> "idle"]

Max(S) == CHOOSE x \in S : \A y \in S : y <= x

\* AddressManager.getAddresses(n, deriveType, offset): the n indices from offset on
getAddresses(n, deriveType, offset) == [k \in 1..n |-> Address(deriveType, offset + k - 1)]

\* AddressManager counter advance(n): never moves a counter back
advance(counter, n) == IF n > counter THEN n ELSE counter

\* addTransactions(addresses) once the API has answered: the addresses that have
\* transactions, in the order asked; hasTx is the API's answer
addTransactions(addresses, hasTx) == SelectSeq(addresses, LAMBDA a : a \in hasTx)

\* lines 153-156 without the `+ 1`
newNNoPlusOne(derivedObjs, addressesWithTx) ==
  Max({0} \cup {derivedObjs[k].index : k \in {j \in 1..Len(derivedObjs) :
                                               IndexOf(addressesWithTx, derivedObjs[j]) # -1}})

\* lines 153-156: 1 + the highest index among the batch's addresses with transactions
newN(derivedObjs, addressesWithTx) ==
  Max({0} \cup {derivedObjs[k].index : k \in {j \in 1..Len(derivedObjs) :
                                               IndexOf(addressesWithTx, derivedObjs[j]) # -1}})
    + 1

\* line 144 without the `threshold - n` term
lastIndexWithTxNoThreshold(threshold, n, offset) == offset - 1

\* line 144
lastIndexWithTx(threshold, n, offset) == offset - (threshold - n) - 1

(***************************************************************************)
(* Initial state: a constructed Wallet.                                    *)
(***************************************************************************)
NoCall == [op |-> "none"]

Init ==
  /\ utxoSet = NewUtxoSet
  /\ pending = NoTransactions
  /\ balance = Undefined
  /\ addressManager = [receive |-> 1, change |-> 0]
  /\ receiveAddress = Address("receive", 0)
  /\ sending = <<>>
  /\ transactionsStorage = {}
  /\ discovery = Idle
  /\ last = NoCall

(***************************************************************************)
(* The UtxoSet class on its own: its methods called in any order.          *)
(***************************************************************************)
WalletUnchanged ==
  UNCHANGED <<pending, balance, addressManager, receiveAddress, sending,
              transactionsStorage, discovery>>

OwnerAddress == Address("receive", 0)

\* every duplicate-free list of ids
IdLists == {s \in SeqsUpTo(AllUtxoIds, Cardinality(AllUtxoIds)) :
              \A i, j \in 1..Len(s) : i # j => s[i] # s[j]}

UAdd(utxos) ==
  /\ LET r == add(utxoSet, utxos, OwnerAddress)
     IN /\ utxoSet' = r.us
        /\ last' = [op |-> "add", arg |-> utxos, ret |-> r.ret, pre |-> utxoSet,
                     again |-> last.op = "add" /\ last.arg = utxos]
  /\ WalletUnchanged

UPush(utxoIds) ==
  /\ utxoIds # <<>>
  /\ Range(utxoIds) \subseteq Range(Keys(utxoSet.utxos))
  /\ Len(utxoSet.inUse) + Len(utxoIds) <= MaxInUse
  /\ utxoSet' = inUsePush(utxoSet, utxoIds)
  /\ last' = [op |-> "push", arg |-> utxoIds, pre |-> utxoSet]
  /\ WalletUnchanged

UEnable(utxoIds) ==
  /\ utxoIds # <<>>
  /\ utxoSet' = enable(utxoSet, utxoIds)
  /\ last' = [op |-> "enable", arg |-> utxoIds, pre |-> utxoSet,
              afterPush |-> last.op = "push" /\ last.arg = utxoIds,
              prePush |-> IF last.op = "push" THEN last.pre ELSE utxoSet]
  /\ WalletUnchanged

UUpdateUtxoBalance ==
  /\ utxoSet' = updateUtxoBalance(utxoSet)
  /\ last' = [op |-> "updateUtxoBalance"]
  /\ WalletUnchanged

UClear ==
  /\ utxoSet' = clear(utxoSet)
  /\ last' = [op |-> "clear", hadUtxos |-> utxoSet.utxos # <<>>,
              hadInUse |-> utxoSet.inUse # <<>>]
  /\ WalletUnchanged

USelectUtxos(txAmount) ==
  /\ last' = [op |-> "selectUtxos", arg |-> txAmount, ret |-> selectUtxos(utxoSet, Num(txAmount))]
  /\ UNCHANGED utxoSet
  /\ WalletUnchanged

NextUtxoSet ==
  \/ \E utxos \in BatchesWithStale : UAdd(utxos)
  \/ \E utxoIds \in IdLists : UPush(utxoIds)
  \/ \E utxoIds \in IdLists : UEnable(utxoIds)
  \/ UUpdateUtxoBalance
  \/ UClear
  \/ \E txAmount \in 0..MaxTarget : USelectUtxos(txAmount)

SpecUtxoSet == Init /\ [][NextUtxoSet]_vars

(***************************************************************************)
(* The Wallet's handlers.  sendTx suspends at `await api.postTx(rawTx)`;   *)
(* other calls may run before the broadcast answers.                       *)
(***************************************************************************)
AmountInputs == {Num(n) : n \in 0..MaxAmount} \cup {NaN}
Fees == {Num(n) : n \in 0..MaxFee}

\* a call other than the suspended sendTx has run
Interleave == sending' = [i \in DOMAIN sending |-> [sending[i] EXCEPT !.clean = FALSE]]

CursorsBelowCap == addressManager.receive < MaxCursor /\ addressManager.change < MaxCursor

UpdateUtxos(utxos, address) ==
  /\ UNCHANGED <<transactionsStorage, discovery>>
  /\ SetW(updateUtxos(W, utxos, address))
  /\ last' = [op |-> "updateUtxos"]
  /\ Interleave

ComposeTx(amount, fee, changeAddrOverride, signOk) ==
  /\ UNCHANGED <<transactionsStorage, discovery>>
  /\ sending = <<>>
  /\ CursorsBelowCap
  /\ LET r == composeTx(W, amount, fee, changeAddrOverride, signOk)
     IN /\ SetW(r.w)
        /\ last' = [op |-> "composeTx", stage |-> "composed", amount |-> amount, fee |-> fee,
                    changeAddrOverride |-> changeAddrOverride, pre |-> W,
                    threw |-> r.threw, error |-> r.error,
                    ret |-> IF r.threw THEN NoError ELSE r.ret]
  /\ UNCHANGED sending

\* sendTx up to its await: composeTx, whose throw rejects the call
SendTx(amount, fee, signOk) ==
  /\ UNCHANGED <<transactionsStorage, discovery>>
  /\ sending = <<>>
  /\ CursorsBelowCap
  /\ LET r == composeTx(W, amount, fee, NoOverride, signOk)
     IN /\ SetW(r.w)
        /\ sending' = IF r.threw THEN <<>>
                      ELSE <<[id |-> r.ret.id, utxoIds |-> r.ret.utxoIds, pre |-> W,
                              clean |-> TRUE]>>
        /\ last' = [op |-> "sendTx", stage |-> "composed", amount |-> amount, fee |-> fee,
                    changeAddrOverride |-> NoOverride, pre |-> W,
                    threw |-> r.threw, error |-> r.error,
                    ret |-> IF r.threw THEN NoError ELSE r.ret]

\* api.postTx resolved: sendTx returns the id
PostTxAccepted ==
  /\ UNCHANGED <<transactionsStorage, discovery>>
  /\ sending # <<>>
  /\ sending' = <<>>
  /\ last' = [op |-> "sendTx", stage |-> "accepted", id |-> sending[1].id,
              utxoIds |-> sending[1].utxoIds, pre |-> sending[1].pre,
              clean |-> sending[1].clean, threw |-> FALSE, error |-> NoError]
  /\ UNCHANGED <<utxoSet, pending, balance, addressManager, receiveAddress>>

\* api.postTx rejected: the catch block runs deleteTx(id), then `throw e`
PostTxRejected ==
  /\ UNCHANGED <<transactionsStorage, discovery>>
  /\ sending # <<>>
  /\ LET r == deleteTx(W, sending[1].id)
     IN /\ SetW(r.w)
        /\ last' = [op |-> "sendTx", stage |-> "rejected", id |-> sending[1].id,
                    utxoIds |-> sending[1].utxoIds, pre |-> sending[1].pre,
                    clean |-> sending[1].clean, threw |-> TRUE,
                    error |-> IF r.threw THEN r.error ELSE FetchError]
  /\ sending' = <<>>

\* deleteTx(id) called from outside, for a tracked id or for one that is not
UntrackedId == TxId(<<>>, Num(0), Num(0), NoOverride)

DeleteTx(id) ==
  /\ UNCHANGED <<transactionsStorage, discovery>>
  /\ LET r == deleteTx(W, id)
     IN /\ SetW(r.w)
        /\ last' = [op |-> "deleteTx", id |-> id, pre |-> W, threw |-> r.threw,
                    error |-> r.error]
  /\ Interleave

Next ==
  \/ \E utxos \in Batches : UpdateUtxos(utxos, OwnerAddress)
  \/ \E amount \in AmountInputs, fee \in Fees,
        changeAddrOverride \in {NoOverride, OverrideAddress}, signOk \in BOOLEAN :
       ComposeTx(amount, fee, changeAddrOverride, signOk)
  \/ \E amount \in AmountInputs, fee \in Fees, signOk \in BOOLEAN : SendTx(amount, fee, signOk)
  \/ PostTxAccepted
  \/ PostTxRejected
  \/ \E id \in DOMAIN pending \cup {UntrackedId} : DeleteTx(id)

Spec == Init /\ [][Next]_vars

(***************************************************************************)
(* The Wallet with its public utxoSet field also cleared from outside:     *)
(* no method of the Wallet calls utxoSet.clear() itself.                   *)
(***************************************************************************)
Clear ==
  /\ UNCHANGED <<transactionsStorage, discovery>>
  /\ utxoSet' = clear(utxoSet)
  /\ UNCHANGED <<pending, balance, addressManager, receiveAddress>>
  /\ last' = [op |-> "clear"]
  /\ Interleave

\* one amount, no fee, no override, a transaction chain that signs
NextClear ==
  \/ \E utxos \in Batches : UpdateUtxos(utxos, OwnerAddress)
  \/ ComposeTx(Num(MaxAmount), Num(0), NoOverride, TRUE)
  \/ SendTx(Num(MaxAmount), Num(0), TRUE)
  \/ PostTxAccepted
  \/ PostTxRejected
  \/ \E id \in DOMAIN pending \cup {UntrackedId} : DeleteTx(id)
  \/ Clear

SpecClear == Init /\ [][NextClear]_vars

(***************************************************************************)
(* composeTx with the arguments a caller is free to pass: updateUtxos for  *)
(* an address this wallet never derived, and a fee that is not a number.   *)
(***************************************************************************)
\* the largest amount and one that is not a number; no fee and one that is not a number
AmountsGiven == {Num(MaxAmount), NaN}
FeeInputs == {Num(0), NaN}

NextInputs ==
  \/ \E utxos \in Batches, address \in {OwnerAddress, ForeignAddress} :
       UpdateUtxos(utxos, address)
  \/ \E amount \in AmountsGiven, fee \in FeeInputs, signOk \in BOOLEAN :
       ComposeTx(amount, fee, NoOverride, signOk)

SpecInputs == Init /\ [][NextInputs]_vars

(***************************************************************************)
(* addressDiscovery(threshold): every doDiscovery call suspends at         *)
(* `await this.addTransactions(addresses)`; the receive chain is scanned   *)
(* first, then the change chain, then the counters are advanced and the    *)
(* UTXOs of every address in transactionsStorage are fetched.              *)
(***************************************************************************)
Thresholds == 1..MaxThreshold
ActiveSets == SUBSET (0..MaxIndex)

WalletQuiet == UNCHANGED <<utxoSet, pending, balance, addressManager, receiveAddress, sending>>

\* the call: doDiscovery(threshold, 'receive', 0) is entered; hasTx is what the API will
\* answer for each address during this call
AddressDiscovery(threshold, activeReceive, activeChange) ==
  /\ discovery.pc = "idle"
  /\ discovery' = [pc |-> "doDiscovery", threshold |-> threshold,
                   hasTx |-> {Address("receive", i) : i \in activeReceive}
                               \cup {Address("change", i) : i \in activeChange},
                   deriveType |-> "receive", n |-> threshold, offset |-> 0,
                   scanned |-> {}, highestReceiveIndex |-> -1, highestChangeIndex |-> -1,
                   before |-> addressManager]
  /\ last' = [op |-> "addressDiscovery"]
  /\ WalletQuiet
  /\ UNCHANGED transactionsStorage

\* one doDiscovery call resumed after its await
DoDiscovery ==
  /\ discovery.pc = "doDiscovery"
  /\ LET n == discovery.n
         offset == discovery.offset
         deriveType == discovery.deriveType
         derivedObjs == getAddresses(n, deriveType, offset)
         addressesWithTx == addTransactions(derivedObjs, discovery.hasTx)
         seen == [discovery EXCEPT !.scanned = @ \cup Range(derivedObjs)]
     IN /\ transactionsStorage' = transactionsStorage \cup Range(addressesWithTx)
        /\ discovery' =
             IF Len(addressesWithTx) = 0
             THEN IF deriveType = "receive"
                  THEN [seen EXCEPT !.highestReceiveIndex =
                                       lastIndexWithTx(discovery.threshold, n, offset),
                                    !.deriveType = "change",
                                    !.n = discovery.threshold, !.offset = 0]
                  ELSE [seen EXCEPT !.highestChangeIndex =
                                       lastIndexWithTx(discovery.threshold, n, offset),
                                    !.pc = "advance"]
             ELSE [seen EXCEPT !.n = newN(derivedObjs, addressesWithTx),
                               !.offset = offset + n]
  /\ UNCHANGED last
  /\ WalletQuiet

\* lines 161-167: both counters advanced, updateUtxos called
AdvanceCursors ==
  /\ discovery.pc = "advance"
  /\ addressManager' =
       [receive |-> advance(addressManager.receive, discovery.highestReceiveIndex + 1),
        change |-> advance(addressManager.change, discovery.highestChangeIndex + 1)]
  /\ discovery' = [discovery EXCEPT !.pc = "updateUtxos"]
  /\ UNCHANGED <<utxoSet, pending, balance, receiveAddress, sending, transactionsStorage, last>>

\* updateUtxos(Object.keys(this.transactionsStorage)) resumed after its await
DiscoveryUpdateUtxos(utxos) ==
  /\ discovery.pc = "updateUtxos"
  /\ transactionsStorage = {} => utxos = <<>>
  /\ SetW(updateUtxos(W, utxos, OwnerAddress))
  /\ discovery' = [discovery EXCEPT !.pc = "done"]
  /\ last' = [op |-> "updateUtxos", addresses |-> transactionsStorage]
  /\ UNCHANGED <<sending, transactionsStorage>>

NextDiscovery ==
  \/ \E threshold \in Thresholds, activeReceive \in ActiveSets, activeChange \in ActiveSets :
       AddressDiscovery(threshold, activeReceive, activeChange)
  \/ DoDiscovery
  \/ AdvanceCursors
  \/ \E utxos \in Batches : DiscoveryUpdateUtxos(utxos)

SpecDiscovery == Init /\ [][NextDiscovery]_vars

\* every api.getTransactions call returns: a doDiscovery call that waits is resumed
SpecDiscoveryFair == SpecDiscovery /\ WF_vars(DoDiscovery)

(***************************************************************************)
(* Properties of the UtxoSet class (checked under SpecUtxoSet).            *)
(***************************************************************************)
\* the ids of the known UTXOs that are not in use, in insertion order
AvailableIds(us) == Keys(NotInUse(us))

\* the least k such that the first k not-in-use UTXOs cover txAmount
ShortestCover(us, txAmount) ==
  LET avail == NotInUse(us)
  IN CHOOSE k \in 0..Len(avail) :
       /\ SumSatoshis(SubSeq(avail, 1, k)) >= txAmount
       /\ \A j \in 0..(k - 1) : SumSatoshis(SubSeq(avail, 1, j)) < txAmount

\* C5: after add, updateUtxoBalance and clear, the available balance of the UtxoSet
\* is the sum of the values of the known UTXOs that are not in use.
C5_AvailableBalanceIsSum ==
  last.op \in {"add", "updateUtxoBalance", "clear"}
    => utxoSet.availableBalance = SumSatoshis(NotInUse(utxoSet))

\* C6 as stated: a successful selectUtxos(target) returns exactly the shortest prefix, in
\* insertion order, of the not-in-use UTXOs whose values sum to at least target.
C6_ShortestPrefixAnyTarget ==
  (last.op = "selectUtxos" /\ ~last.ret.threw)
    => /\ last.ret.utxoIds =
            SubSeq(AvailableIds(utxoSet), 1, ShortestCover(utxoSet, last.arg))
       /\ last.ret.totalVal >= last.arg

\* C6 amended: the shortest-prefix law holds for every target >= 1; for target 0 the loop
\* looks at the first known UTXO before it tests the sum and takes it when it is not in use.
C6_ShortestPrefix ==
  (last.op = "selectUtxos" /\ ~last.ret.threw)
    => /\ last.ret.totalVal >= last.arg
       /\ Range(last.ret.utxoIds) \cap Range(utxoSet.inUse) = {}
       /\ last.ret.totalVal =
            SumSatoshis(SelectSeq(utxoSet.utxos, LAMBDA u : u.id \in Range(last.ret.utxoIds)))
       /\ last.arg >= 1 =>
            last.ret.utxoIds =
              SubSeq(AvailableIds(utxoSet), 1, ShortestCover(utxoSet, last.arg))
       /\ last.arg = 0 =>
            last.ret.utxoIds =
              IF utxoSet.utxos # <<>> /\ utxoSet.utxos[1].id \notin Range(utxoSet.inUse)
              THEN <<utxoSet.utxos[1].id>> ELSE <<>>

\* two UTXOs selected although the second alone covers the target, an in-use one skipped
C6_Witness ==
  /\ last.op = "selectUtxos" /\ ~last.ret.threw /\ last.arg >= 1
  /\ Len(last.ret.utxoIds) = 2
  /\ utxoSet.inUse # <<>>
  /\ \E u \in Range(utxoSet.utxos) : u.id = last.ret.utxoIds[2] /\ u.satoshis >= last.arg

\* C8: add returns and inserts exactly the ids that were neither known nor in use before,
\* leaves the existing entries and the in-use array untouched, and a second add of the
\* same batch returns nothing and changes neither membership nor balance.
C8_AddDeduplicates ==
  last.op = "add" =>
    LET before == Range(Keys(last.pre.utxos)) \cup Range(last.pre.inUse)
        fresh == {UtxoId(u) : u \in Range(last.arg)} \ before
    IN /\ Range(last.ret) = fresh
       /\ Len(last.ret) = Cardinality(fresh)
       /\ SubSeq(utxoSet.utxos, 1, Len(last.pre.utxos)) = last.pre.utxos
       /\ Keys(utxoSet.utxos) = Keys(last.pre.utxos) \o last.ret
       /\ utxoSet.inUse = last.pre.inUse
       /\ last.again =>
            /\ last.ret = <<>>
            /\ utxoSet.utxos = last.pre.utxos
            /\ utxoSet.balance = last.pre.balance
            /\ utxoSet.availableBalance = last.pre.availableBalance

\* the same non-empty batch added twice, its outpoint in use at the second call
C8_Witness ==
  /\ last.op = "add" /\ last.again /\ last.arg # <<>>
  /\ \E u \in Range(last.arg) : UtxoId(u) \in Range(last.pre.inUse)

\* C9 as stated: inUse.push(S) followed by enable(S) restores the UtxoSet, also when
\* some id of S was in use before the push.
C9_RoundTripAlways ==
  (last.op = "enable" /\ last.afterPush) => utxoSet = last.prePush

\* C9 amended: the round trip restores the UtxoSet when no id of S was in use before the
\* push (an id that was already in use ends up released).
C9_RoundTripDisjoint ==
  (last.op = "enable" /\ last.afterPush
     /\ Range(last.arg) \cap Range(last.prePush.inUse) = {})
    => /\ utxoSet.inUse = last.prePush.inUse
       /\ utxoSet.utxos = last.prePush.utxos
       /\ utxoSet.balance = last.prePush.balance
       /\ updateUtxoBalance(utxoSet).balance = updateUtxoBalance(last.prePush).balance

\* a round trip over ids that were free, with another id staying in use
C9_Witness ==
  /\ last.op = "enable" /\ last.afterPush
  /\ Range(last.arg) \cap Range(last.prePush.inUse) = {}
  /\ last.prePush.inUse # <<>>

\* C18: after clear() the UtxoSet holds no UTXO, has nothing in use, and its
\* availableBalance field reads 0.
C18_ClearEmpties ==
  last.op = "clear" =>
    /\ utxoSet.utxos = <<>>
    /\ utxoSet.inUse = <<>>
    /\ utxoSet.availableBalance = 0
    /\ NotInUse(utxoSet) = <<>>

\* clear() called on a set that held UTXOs, some of them in use
C18_Witness == last.op = "clear" /\ last.hadUtxos /\ last.hadInUse

(***************************************************************************)
(* Properties of the Wallet (checked under Spec).                          *)
(***************************************************************************)
\* a sendTx whose broadcast was rejected, nothing else having run in between
FailedSendAlone ==
  last.op = "sendTx" /\ last.stage = "rejected" /\ last.clean /\ last.utxoIds # <<>>

\* a composeTx that ran to its end, called directly or by sendTx
Composed == last.op \in {"composeTx", "sendTx"} /\ last.stage = "composed" /\ ~last.threw

\* C1: after a sendTx whose broadcast fails, the UtxoSet, the pending transactions and the
\* wallet balance are what they were before the call, and the broadcast error is re-raised.
C1_FailedSendRestoresState ==
  FailedSendAlone =>
    /\ utxoSet = last.pre.utxoSet
    /\ pending = last.pre.pending
    /\ balance = last.pre.balance
    /\ last.error = FetchError

\* C2 as stated: after a sendTx whose broadcast fails, both address counters and the
\* current receive address have the values they had before the send.
C2_FailedSendRestoresCursors ==
  FailedSendAlone =>
    /\ addressManager = last.pre.addressManager
    /\ receiveAddress = last.pre.receiveAddress

\* C2 amended: the rollback moves no counter back; after a failed send the receive counter
\* and the change counter are each one above their values before the send, and the current
\* receive address is the one derived at the old receive counter.
C2_FailedSendKeepsCursorsAdvanced ==
  (last.op = "sendTx" /\ last.stage = "rejected") =>
    /\ addressManager.receive = last.pre.addressManager.receive + 1
    /\ addressManager.change = last.pre.addressManager.change + 1
    /\ receiveAddress = Address("receive", last.pre.addressManager.receive)
    /\ receiveAddress # last.pre.receiveAddress

\* a rejected broadcast of a transaction that spent an input
C2_Witness ==
  last.op = "sendTx" /\ last.stage = "rejected" /\ last.utxoIds # <<>>

\* C3: the inputs of two distinct pending transactions are disjoint, and composeTx never
\* selects an outpoint that was in use when it was called.
C3_NoDoubleSpend ==
  /\ \A i, j \in DOMAIN pending :
       i # j => Range(pending[i].utxoIds) \cap Range(pending[j].utxoIds) = {}
  /\ Composed => Range(last.ret.utxoIds) \cap Range(last.pre.utxoSet.inUse) = {}

\* two transactions pending at once, each holding an input
C3_Witness ==
  \E i, j \in DOMAIN pending :
    i # j /\ pending[i].utxoIds # <<>> /\ pending[j].utxoIds # <<>>

\* C4: after a refresh, a compose, a failed send and a deleteTx, the wallet balance is the
\* sum of the values of all known UTXOs minus the amounts of the pending transactions.
C4_BalanceIsKnownMinusPending ==
  (\/ last.op = "updateUtxos"
   \/ Composed
   \/ last.op = "sendTx" /\ last.stage = "rejected"
   \/ last.op = "deleteTx")
    => balance = JsMinus(Num(SumSatoshis(utxoSet.utxos)), pendingAmount(pending))

\* C7: when the not-in-use UTXOs sum to less than amount + fee, composeTx throws the
\* compose error carrying amount + fee and the sum of all not-in-use UTXOs, and no field
\* of the wallet has changed.
C7_InsufficientFundsMutatesNothing ==
  (/\ last.op \in {"composeTx", "sendTx"} /\ last.stage = "composed"
   /\ isSafeInteger(last.amount)
   /\ JsLt(Num(SumSatoshis(NotInUse(last.pre.utxoSet))), JsPlus(last.amount, last.fee)))
    => /\ last.threw
       /\ last.error = ComposeError(JsPlus(last.amount, last.fee),
                                    SumSatoshis(NotInUse(last.pre.utxoSet)))
       /\ W = last.pre
       /\ sending = <<>>

\* too little left to spend while an input is in use and another is still available
C7_Witness ==
  /\ last.op \in {"composeTx", "sendTx"} /\ last.stage = "composed"
  /\ isSafeInteger(last.amount)
  /\ JsLt(Num(SumSatoshis(NotInUse(last.pre.utxoSet))), JsPlus(last.amount, last.fee))
  /\ SumSatoshis(NotInUse(last.pre.utxoSet)) > 0
  /\ last.pre.utxoSet.inUse # <<>>
  /\ JsLt(Num(0), last.fee)

\* a composeTx call that ended, by return or by throw, called directly or by sendTx
ComposeCalled == last.op \in {"composeTx", "sendTx"} /\ last.stage = "composed"

\* C12: a composeTx that throws has changed no field of the wallet, neither address counter
\* included; one that returns has put its inputs in use, recorded its pending entry and
\* rotated the receive address, all three.
C12_FailedComposeMutatesNothing ==
  /\ (ComposeCalled /\ last.threw) => W = last.pre
  /\ Composed =>
       /\ utxoSet.inUse = last.pre.utxoSet.inUse \o last.ret.utxoIds
       /\ last.ret.id \in DOMAIN pending
       /\ addressManager.receive = last.pre.addressManager.receive + 1

\* C13: pending.add never writes over a tracked id: no composeTx returns normally with the
\* id of a transaction that was pending when it was called.
C13_NoOverwriteOfTrackedId ==
  Composed => last.ret.id \notin DOMAIN last.pre.pending

\* C14: deleteTx(id) of a tracked id returns, having removed exactly that entry, released
\* exactly its inputs and recomputed the available balance; deleteTx of an id that is not
\* tracked throws and changes nothing.
C14_CancelReleasesInputs ==
  last.op = "deleteTx" =>
    IF last.id \in DOMAIN last.pre.pending
    THEN /\ ~last.threw
         /\ pending = pendingDelete(last.pre.pending, last.id)
         /\ utxoSet.inUse = enable(last.pre.utxoSet, last.pre.pending[last.id].utxoIds).inUse
         /\ utxoSet.utxos = last.pre.utxoSet.utxos
         /\ utxoSet.balance = Num(SumSatoshis(NotInUse(utxoSet)))
    ELSE last.threw /\ W = last.pre

\* C16: the broadcast is attempted only for a composed transaction; a sendTx whose
\* broadcast was accepted leaves its pending entry tracked and its inputs in use, one whose
\* broadcast was rejected leaves the entry removed and the inputs released, and the inputs
\* of every pending entry stay in use.
C16_SendRetainsOrReleases ==
  /\ (sending # <<>> /\ sending[1].clean) => sending[1].id \in DOMAIN pending
  /\ (last.op = "sendTx" /\ last.stage = "accepted" /\ last.clean) =>
       /\ last.id \in DOMAIN pending
       /\ Range(last.utxoIds) \subseteq Range(utxoSet.inUse)
  /\ (last.op = "sendTx" /\ last.stage = "rejected" /\ last.clean) =>
       /\ last.id \notin DOMAIN pending
       /\ Range(last.utxoIds) \cap Range(utxoSet.inUse) = {}
  /\ \A id \in DOMAIN pending : Range(pending[id].utxoIds) \subseteq Range(utxoSet.inUse)

\* C17: after an updateUtxos that ran while a sendTx was waiting for its broadcast, the
\* wallet balance is the known total minus the pending amounts, the available balance is
\* the sum of the not-in-use UTXOs, the waiting transaction's inputs are still in use and
\* no outpoint is known twice; after a rejected broadcast whose transaction was still
\* tracked, its inputs are released and every UTXO known before is still known.
C17_RefreshDuringSend ==
  /\ (last.op = "updateUtxos" /\ sending # <<>>) =>
       /\ balance = JsMinus(Num(SumSatoshis(utxoSet.utxos)), pendingAmount(pending))
       /\ utxoSet.availableBalance = SumSatoshis(NotInUse(utxoSet))
       /\ Range(sending[1].utxoIds) \subseteq Range(utxoSet.inUse)
       /\ \A i, j \in 1..Len(utxoSet.utxos) :
            i # j => utxoSet.utxos[i].id # utxoSet.utxos[j].id
  /\ (last.op = "sendTx" /\ last.stage = "rejected"
        /\ last.error # TypeError("Cannot destructure property 'utxoIds' of undefined")) =>
       /\ Range(last.utxoIds) \cap Range(utxoSet.inUse) = {}
       /\ Range(Keys(last.pre.utxoSet.utxos)) \subseteq Range(Keys(utxoSet.utxos))

\* C22: a composeTx that returns has advanced the receive counter by exactly one and made
\* the address at the old counter the current receive address, with or without an
\* override; the change counter is one higher without an override and unchanged with one.
C22_ComposeAdvancesCounters ==
  Composed =>
    /\ addressManager.receive = last.pre.addressManager.receive + 1
    /\ receiveAddress = Address("receive", last.pre.addressManager.receive)
    /\ receiveAddress # last.pre.receiveAddress
    /\ addressManager.change =
         IF last.changeAddrOverride = NoOverride
         THEN last.pre.addressManager.change + 1
         ELSE last.pre.addressManager.change

\* a compose with an override that spent an input, after one that took a change address
C22_Witness ==
  /\ Composed /\ last.changeAddrOverride = OverrideAddress
  /\ last.ret.utxoIds # <<>>
  /\ last.pre.addressManager.change > 0
  /\ addressManager.change = last.pre.addressManager.change

\* the outpoints the tracked pending transactions hold
ReservedByPending == UNION {Range(pending[id].utxoIds) : id \in DOMAIN pending}

\* C24: the in-use set is the union of the inputs of the tracked pending transactions:
\* every in-use outpoint belongs to a tracked transaction and every tracked transaction's
\* inputs are in use.
C24_InUseIsReservedByPending == Range(utxoSet.inUse) = ReservedByPending

\* a deleteTx of a tracked id, or a rejected broadcast with nothing run in between, while
\* another transaction was pending
RolledBackAmongOthers ==
  \/ /\ last.op = "deleteTx"
     /\ last.id \in DOMAIN last.pre.pending
     /\ DOMAIN last.pre.pending # {last.id}
  \/ /\ last.op = "sendTx" /\ last.stage = "rejected" /\ last.clean
     /\ DOMAIN last.pre.pending # {}

\* C25: rolling back one of several pending transactions leaves the other entries as they
\* were, takes exactly the removed transaction's inputs out of the in-use array and lowers
\* the pending amount by exactly that transaction's amount + fee.
C25_RollbackLeavesOthers ==
  RolledBackAmongOthers =>
    IF last.op = "deleteTx"
    THEN /\ pending = pendingDelete(last.pre.pending, last.id)
         /\ utxoSet.inUse =
              enable(last.pre.utxoSet, last.pre.pending[last.id].utxoIds).inUse
         /\ pendingAmount(pending) =
              JsMinus(pendingAmount(last.pre.pending), last.pre.pending[last.id].amount)
    ELSE /\ pending = last.pre.pending
         /\ utxoSet.inUse = last.pre.utxoSet.inUse

(***************************************************************************)
(* Properties of the Wallet whose UtxoSet may be cleared (SpecClear).      *)
(***************************************************************************)
\* C23: every id in the in-use array is a key of the known UTXOs, and no outpoint is known
\* twice.
C23_InUseIsKnown ==
  /\ Range(utxoSet.inUse) \subseteq Range(Keys(utxoSet.utxos))
  /\ \A i, j \in 1..Len(utxoSet.utxos) :
       i # j => utxoSet.utxos[i].id # utxoSet.utxos[j].id

\* an outpoint put in use by a compose after the set was cleared and filled again, a
\* transaction composed before the clear still pending
C23_Witness ==
  /\ Composed /\ last.ret.utxoIds # <<>>
  /\ Cardinality(DOMAIN pending) >= 2
  /\ Len(utxoSet.inUse) < Cardinality(DOMAIN pending)

(***************************************************************************)
(* Properties of composeTx over all its inputs (checked under SpecInputs). *)
(***************************************************************************)
\* the selection the call made on the state it found
SelectedBefore == selectUtxos(last.pre.utxoSet, JsPlus(last.amount, last.fee))

\* some selected UTXO belongs to an address AddressManager.all does not hold
MissingKey ==
  /\ ComposeCalled /\ isSafeInteger(last.amount) /\ last.fee.t = "number"
  /\ ~SelectedBefore.threw
  /\ \E k \in 1..Len(SelectedBefore.utxoIds) :
       privKeys(last.pre, SelectedBefore.utxoIds)[k] = Undefined

\* C15: composeTx (called with a numeric fee) hands sign() a private key for every selected
\* input; when the address of a selected input was never derived the call throws, and no
\* input is put in use and no pending entry is recorded.
C15_UnknownAddressRejected ==
  /\ (Composed /\ last.fee.t = "number") => \A k \in 1..Len(last.ret.privKeys) : last.ret.privKeys[k] # Undefined
  /\ MissingKey =>
       /\ last.threw
       /\ utxoSet = last.pre.utxoSet
       /\ pending = last.pre.pending

\* C19 as stated: an amount that is not a safe integer is rejected before anything is
\* selected or changed, and after a composeTx that returned, the amount and the total
\* amount + fee recorded in the pending entry are safe integers.
C19_RecordedTotalIsSafeInteger ==
  /\ (ComposeCalled /\ last.amount = NaN) =>
       last.threw /\ last.error = AmountTooLarge /\ W = last.pre
  /\ Composed =>
       /\ last.amount.t = "number"
       /\ pending[last.ret.id].amount.t = "number"

\* C19 amended: an amount that is not a safe integer is rejected with 'Amount too large'
\* before anything is selected or changed; after a composeTx that returned the amount is a
\* safe integer, and the total recorded is amount + fee as JavaScript computes it, a number
\* exactly when the fee is one.
C19_UnsafeAmountRejected ==
  /\ (ComposeCalled /\ last.amount = NaN) =>
       last.threw /\ last.error = AmountTooLarge /\ W = last.pre
  /\ Composed =>
       /\ last.amount.t = "number"
       /\ pending[last.ret.id].amount = JsPlus(last.amount, last.fee)
       /\ last.ret.amount = JsPlus(last.amount, last.fee)
       /\ (pending[last.ret.id].amount.t = "number") <=> (last.fee.t = "number")

\* an amount that is not a number rejected while a UTXO was there to select, and a
\* transaction pending
C19_Witness ==
  /\ ComposeCalled /\ last.amount = NaN /\ last.threw
  /\ NotInUse(last.pre.utxoSet) # <<>>
  /\ DOMAIN last.pre.pending # {}

(***************************************************************************)
(* Properties of addressDiscovery (checked under SpecDiscovery).           *)
(***************************************************************************)
\* the indices of a chain that were scanned and have transactions
ActiveScanned(deriveType) ==
  {a.index : a \in {b \in discovery.scanned \cap discovery.hasTx : b.type = deriveType}}

HighestActive(deriveType) ==
  IF ActiveScanned(deriveType) = {} THEN -1 ELSE Max(ActiveScanned(deriveType))

ReceiveScanDone == discovery.pc # "idle" /\ discovery.deriveType = "change"
ChangeScanDone == discovery.pc \in {"advance", "updateUtxos", "done"}

\* C10: each chain's scan returns the highest scanned index that has transactions, and -1
\* when no scanned address has any.
C10_ReturnsHighestActiveIndex ==
  /\ ReceiveScanDone => discovery.highestReceiveIndex = HighestActive("receive")
  /\ ChangeScanDone => discovery.highestChangeIndex = HighestActive("change")

\* the indices of a chain for which the API has transactions, scanned or not
Active(deriveType) == {a.index : a \in {b \in discovery.hasTx : b.type = deriveType}}

Scanned(deriveType) == {a.index : a \in {b \in discovery.scanned : b.type = deriveType}}

InFirstWindow(deriveType) == Active(deriveType) \subseteq 0..(discovery.threshold - 1)

MaxOrMinusOne(S) == IF S = {} THEN -1 ELSE Max(S)

\* C11: when all activity of a chain lies in [0, threshold), its scan returns the highest
\* active index m (-1 when there is none) after scanning exactly the indices 0..m+threshold,
\* and the chain's counter is then advanced to m + 1, or left alone when nothing is active.
C11_FirstWindowDiscovery ==
  /\ (ReceiveScanDone /\ InFirstWindow("receive")) =>
       /\ discovery.highestReceiveIndex = MaxOrMinusOne(Active("receive"))
       /\ Scanned("receive") =
            0..(MaxOrMinusOne(Active("receive")) + discovery.threshold)
  /\ (ChangeScanDone /\ InFirstWindow("change")) =>
       /\ discovery.highestChangeIndex = MaxOrMinusOne(Active("change"))
       /\ Scanned("change") = 0..(MaxOrMinusOne(Active("change")) + discovery.threshold)
  /\ (discovery.pc \in {"updateUtxos", "done"} /\ InFirstWindow("receive")) =>
       addressManager.receive =
         IF Active("receive") = {} THEN discovery.before.receive
         ELSE Max(Active("receive")) + 1
  /\ (discovery.pc \in {"updateUtxos", "done"} /\ InFirstWindow("change")) =>
       addressManager.change =
         IF Active("change") = {} THEN discovery.before.change
         ELSE Max(Active("change")) + 1

\* activity with a gap inside the first window moved the receive counter; the change
\* chain is empty and its counter stayed
C11_Witness ==
  /\ discovery.pc = "done"
  /\ InFirstWindow("receive") /\ InFirstWindow("change")
  /\ Active("change") = {}
  /\ addressManager.change = discovery.before.change
  /\ \E i, m \in Active("receive") : i + 1 < m /\ (i + 1) \notin Active("receive")
  /\ addressManager.receive > discovery.before.receive

\* the addresses of the batch the waiting doDiscovery call asked about
CurrentBatch ==
  {Address(discovery.deriveType, i) :
     i \in discovery.offset..(discovery.offset + discovery.n - 1)}

\* one doDiscovery call: its batch is not empty, starts where the scanned part of the chain
\* ends and holds no address scanned before; a recursive call starts where this batch ends
ContiguousStep ==
  (discovery.pc = "doDiscovery" /\ discovery' # discovery) =>
    /\ discovery.n >= 1
    /\ Scanned(discovery.deriveType) = 0..(discovery.offset - 1)
    /\ CurrentBatch \cap discovery.scanned = {}
    /\ discovery'.scanned = discovery.scanned \cup CurrentBatch
    /\ (discovery'.pc = "doDiscovery" /\ discovery'.deriveType = discovery.deriveType) =>
         /\ discovery'.offset = discovery.offset + discovery.n
         /\ discovery'.offset > discovery.offset
         /\ discovery'.n >= 1

\* C20: for every threshold >= 1 and every finite set of active indices, the scan of the
\* two chains ends when every fetch returns; each doDiscovery call scans a non-empty batch
\* that starts where the previous one ended, so no index is skipped or scanned twice.
C20_DiscoveryTerminates ==
  /\ [][ContiguousStep]_vars
  /\ (discovery.pc = "doDiscovery") ~> (discovery.pc = "advance")

\* both scans ended, the receive scan after activity beyond the first window
C20_Witness ==
  /\ discovery.pc = "advance"
  /\ \E i \in ActiveScanned("receive") : i >= discovery.threshold
  /\ ActiveScanned("change") # {}

\* C21: while a chain is scanned no counter moves and no UTXO is fetched; the change chain
\* is scanned only after the receive chain; then each counter is advanced to the chain's
\* highest active index + 1 (never back); then updateUtxos is called with exactly the
\* scanned addresses that have transactions.
C21_DiscoveryOrder ==
  /\ discovery.pc \in {"doDiscovery", "advance"} =>
       addressManager = discovery.before /\ utxoSet = NewUtxoSet
  /\ (discovery.pc = "doDiscovery" /\ discovery.deriveType = "receive") =>
       Scanned("change") = {}
  /\ discovery.pc \in {"updateUtxos", "done"} =>
       /\ addressManager.receive =
            advance(discovery.before.receive, HighestActive("receive") + 1)
       /\ addressManager.change =
            advance(discovery.before.change, HighestActive("change") + 1)
  /\ discovery.pc = "updateUtxos" => utxoSet = NewUtxoSet
  /\ discovery.pc = "done" =>
       /\ last.addresses = discovery.scanned \cap discovery.hasTx
       /\ last.addresses = transactionsStorage

====
